---- MODULE Spec2Model ----
(***************************************************************************)
(* Model of src/generator.py: the set-list generator.                      *)
(*                                                                         *)
(* A song is a Python dict {'name', 'performers'}.  A dict has an object   *)
(* identity (the slot of the list parseCsv appended it to) and a content   *)
(* (its two values); `is` compares the first, `==` the second.  The model  *)
(* keeps both: a song is a record [id, name, performers].                  *)
(* A name is the sequence of its words, and the test `'Bouncy' in name`    *)
(* is the search for a contiguous run of words.                            *)
(* Scores are floats that only ever hold whole numbers; they are integers  *)
(* here, and float('-inf') is the record NegInf.                           *)
(* An optional value (None or a value) is a sequence of length 0 or 1.     *)
(***************************************************************************)
EXTENDS Integers, Sequences, FiniteSets, TLC

VARIABLES
    songs,              \* generateSetlist argument: the regular songs
    guest_performances, \* generateSetlist argument: the guest performances
    iterations,         \* generateSetlist argument
    pc,                 \* position in generateSetlist / in the function harness
    error,              \* the exception that ended the call, "" if none
    bouncy,             \* optional song
    this_world,         \* optional song
    available_songs,
    iteration,          \* number of loop iterations completed
    shuffled,           \* the last trial's shuffled pool
    remaining,          \* the last trial's queue after the placement loop
    guest_idx,          \* the last trial's guest_idx after the guest loop
    setlist,            \* the last trial's setlist
    score,              \* the last trial's score
    best_setlist,       \* optional setlist
    best_score,         \* float, -inf at first
    groups,             \* optional return value
    history,            \* history variable: <<setlist, score>> of every trial so far
    call,               \* function harness: the arguments of the call
    ret                 \* function harness: optional return value

vars == <<songs, guest_performances, iterations, pc, error, bouncy, this_world,
          available_songs, iteration, shuffled, remaining, guest_idx, setlist,
          score, best_setlist, best_score, groups, history, call, ret>>

----------------------------------------------------------------------------
(* Bounds of the model *)

MaxTrials == 3        \* iterations ranges over 0..MaxTrials for the small pools
MaxGuests == 17       \* the longest guest pool
MaxFullShuffle == 3   \* pools up to this length are shuffled into every permutation
MaxScoreLen == 6      \* longest setlist given to calculate_setlist_score on its own
MaxFindLen == 5       \* longest partial setlist given to find_best_position_for_song on its own

(* Program constants *)

total_needed == 19

----------------------------------------------------------------------------
(* Python values *)

None == <<>>
Some(x) == <<x>>
NegInf == [fin |-> FALSE, v |-> 0]
Float(x) == [fin |-> TRUE, v |-> x]
\* a > b for a finite float a and a float b that may be -inf
FloatGT(a, b) == IF b.fin THEN a.v > b.v ELSE TRUE

Min2(a, b) == IF a < b THEN a ELSE b
Max2(a, b) == IF a > b THEN a ELSE b

\* s[lo:hi] for 0 <= lo, 0 <= hi
PySlice(s, lo, hi) == SubSeq(s, lo + 1, Min2(hi, Len(s)))
\* the list after s.insert(pos, x), equally s[:pos] + [x] + s[pos:], 0 <= pos
PyInsert(s, pos, x) == PySlice(s, 0, pos) \o <<x>> \o PySlice(s, pos, Len(s))

\* a is b
PyIs(a, b) == a.id = b.id
\* a == b on dicts: same keys (always) and equal values
PyEq(a, b) == a.name = b.name /\ a.performers = b.performers
\* x in [list of optional songs]: identity or equality with some element
PyIn(x, lst) == \E k \in DOMAIN lst : PyIs(lst[k], x) \/ PyEq(lst[k], x)

\* sub in name
Contains(name, sub) ==
    \E k \in 0..(Len(name) - Len(sub)) : SubSeq(name, k + 1, k + Len(sub)) = sub

Bouncy == <<"Bouncy">>
ThisWorld == <<"This", "World">>

\* mutant: next(..., songs[0]), a default that is a song
FirstMatchOrFirst(pool, sub) ==
    LET hits == {k \in DOMAIN pool : Contains(pool[k].name, sub)}
    IN  IF hits = {} THEN (IF pool = << >> THEN None ELSE Some(pool[1]))
        ELSE Some(pool[CHOOSE k \in hits : \A m \in hits : k <= m])

\* next((s for s in songs if sub in s['name']), None)
FirstMatch(pool, sub) ==
    LET hits == {k \in DOMAIN pool : Contains(pool[k].name, sub)}
    IN  IF hits = {} THEN None
        ELSE Some(pool[CHOOSE k \in hits : \A m \in hits : k <= m])

----------------------------------------------------------------------------
(* calculate_overlap, calculate_setlist_score *)

calculate_overlap(song1, song2) ==
    Cardinality(song1.performers \cap song2.performers)

\* mutant: the weight of a pair 3 apart is 0
PenaltyFromThree(overlap, distance) == overlap * (3 - distance) * 10

Penalty(overlap, distance) == overlap * (4 - distance) * 10

RECURSIVE ScoreInnerTwoAhead(_, _, _)
\* mutant: range(i + 1, min(i + 3, len(setlist))) looks at the next 2 songs
ScoreInnerTwoAhead(sl, i, j) ==
    IF j < Min2(i + 3, Len(sl))
    THEN Penalty(calculate_overlap(sl[i + 1], sl[j + 1]), j - i)
         + ScoreInnerTwoAhead(sl, i, j + 1)
    ELSE 0

RECURSIVE ScoreInner(_, _, _)
\* for j in range(i + 1, min(i + 4, len(setlist))), from j on: the penalties
\* the loop subtracts from score; i, j are 0-based
ScoreInner(sl, i, j) ==
    IF j < Min2(i + 4, Len(sl))
    THEN Penalty(calculate_overlap(sl[i + 1], sl[j + 1]), j - i)
         + ScoreInner(sl, i, j + 1)
    ELSE 0

RECURSIVE ScoreOuter(_, _)
\* for i in range(len(setlist)), from i on: the penalties subtracted
ScoreOuter(sl, i) ==
    IF i < Len(sl)
    THEN ScoreInner(sl, i, i + 1) + ScoreOuter(sl, i + 1)
    ELSE 0

\* score = 0.0; score -= penalty for every pair of the loops
calculate_setlist_score(sl) == 0 - ScoreOuter(sl, 0)

----------------------------------------------------------------------------
(* find_best_position_for_song *)

\* the score the loop body computes for pos
SectionScore(partial_setlist, song, pos) ==
    LET test_list == PySlice(partial_setlist, 0, pos) \o <<song>>
                     \o PySlice(partial_setlist, pos, Len(partial_setlist))
    IN  calculate_setlist_score(
            PySlice(test_list, Max2(0, pos - 3), Min2(Len(test_list), pos + 4)))

\* mutant: score >= best_score, the last of equal positions wins
BetterOrEqual(s, best) == IF best.fin THEN s.v >= best.v ELSE TRUE

\* if score > best_score (line 78)
Better(s, best) == FloatGT(s, best)

RECURSIVE PosLoop(_, _, _, _, _, _)
\* for pos in range(start_idx, end_idx + 1), from pos on
PosLoop(partial_setlist, song, pos, end_idx, b_score, b_position) ==
    IF pos < end_idx + 1
    THEN LET s == Float(SectionScore(partial_setlist, song, pos))
         IN  IF Better(s, b_score)
             THEN PosLoop(partial_setlist, song, pos + 1, end_idx, s, pos)
             ELSE PosLoop(partial_setlist, song, pos + 1, end_idx, b_score, b_position)
    ELSE b_position

find_best_position_for_song(partial_setlist, song, start_idx, end_idx) ==
    PosLoop(partial_setlist, song, start_idx, end_idx, NegInf, start_idx)

----------------------------------------------------------------------------
(* The inputs: what parseCsv returns.  A row of the file becomes one dict,  *)
(* appended to songs, or to guest_performances when its performers are      *)
(* exactly ['Guest Performer'].                                             *)

\* the list of dicts made from rows <<name, performers>>; kind and position
\* are the identity of each dict
MkPool(kind, rows) ==
    [k \in 1..Len(rows) |->
        [id |-> <<kind, k>>, name |-> rows[k][1], performers |-> rows[k][2]]]

Rows(n, row) == [k \in 1..n |-> row]

SongX == <<"Song", "X">>
SongY == <<"Song", "Y">>
SongZ == <<"Song", "Z">>
SongW == <<"Song", "W">>

\* pools whose available songs number at most MaxFullShuffle
SmallPools ==
    { \* both anchors, two more songs; the shuffle decides the score
      MkPool("s", << <<SongX, {"A"}>>, <<Bouncy, {"A"}>>,
                     <<SongZ, {"B"}>>, <<ThisWorld, {"C"}>> >>),
      \* both anchors, three more songs
      MkPool("s", << <<Bouncy, {"A"}>>, <<ThisWorld, {"B"}>>, <<SongX, {"A"}>>,
                     <<SongY, {"B"}>>, <<SongZ, {"C"}>> >>),
      \* the anchors alone
      MkPool("s", << <<ThisWorld, {"A"}>>, <<Bouncy, {"A"}>> >>),
      \* no "Bouncy"
      MkPool("s", << <<SongX, {"A"}>>, <<ThisWorld, {"B"}>> >>),
      \* no "This World": the words in another order are no match
      MkPool("s", << <<Bouncy, {"A"}>>, <<<<"World", "This">>, {"B"}>> >>),
      \* neither anchor
      MkPool("s", << <<SongX, {"A"}>>, <<SongY, {"B"}>> >>),
      \* no songs at all
      MkPool("s", << >>),
      \* one name matches both substrings
      MkPool("s", << <<SongX, {"A"}>>,
                     <<<<"Bouncy", "This", "World">>, {"A"}>>, <<SongZ, {"B"}>> >>),
      \* a second row with the name and performers of an anchor
      MkPool("s", << <<Bouncy, {"A"}>>, <<SongX, {"B"}>>,
                     <<Bouncy, {"A"}>>, <<ThisWorld, {"C"}>> >>),
      \* a second name that contains "Bouncy", with other performers
      MkPool("s", << <<SongX, {"B"}>>, <<<<"Bouncy", "Remix">>, {"B"}>>,
                     <<Bouncy, {"A"}>>, <<ThisWorld, {"C"}>> >>) }

\* two anchors performed by "A" and total_needed songs performed by "B"
UniformPool ==
    MkPool("s", << <<Bouncy, {"A"}>>, <<ThisWorld, {"A"}>> >>
                \o Rows(total_needed, <<SongX, {"B"}>>))

\* the same rows with the anchors last, "This World" before "Bouncy"
UniformPoolAnchorsLast ==
    MkPool("s", Rows(total_needed, <<SongX, {"B"}>>)
                \o << <<ThisWorld, {"A"}>>, <<Bouncy, {"A"}>> >>)

\* two anchors and total_needed + 1 songs of three kinds
LongPool ==
    MkPool("s", [k \in 1..(total_needed + 1) |->
                    IF k % 3 = 0 THEN <<SongX, {"A"}>>
                    ELSE IF k % 3 = 1 THEN <<SongY, {"A", "B"}>>
                    ELSE <<SongZ, {"C"}>>]
                \o << <<Bouncy, {"A"}>>, <<ThisWorld, {"C"}>> >>)

\* two anchors and four more songs
FourPool ==
    MkPool("s", << <<Bouncy, {"A"}>>, <<SongX, {"A"}>>, <<SongY, {"B"}>>,
                   <<SongZ, {"A", "B"}>>, <<SongW, {"C"}>>, <<ThisWorld, {"B"}>> >>)

\* pools with more available songs than MaxFullShuffle
LargePools == {FourPool, UniformPool, UniformPoolAnchorsLast, LongPool}

\* n guest rows
GuestPool(n) == MkPool("g", Rows(n, <<<<"Guest">>, {"Guest Performer"}>>))

GuestCounts == {0, 1, MaxGuests}

\* the calls of generateSetlist the model makes
Inputs ==
    (SmallPools \X {GuestPool(n) : n \in GuestCounts} \X (0..MaxTrials))
    \cup (LargePools \X {GuestPool(0), GuestPool(1)} \X {1})

----------------------------------------------------------------------------
(* random.shuffle *)

AllOrders(s) ==
    LET n == Len(s)
        bij == {f \in [1..n -> 1..n] : \A a, b \in 1..n : f[a] = f[b] => a = b}
    IN  {[k \in 1..n |-> s[f[k]]] : f \in bij}

Rotate(s, r) == [k \in 1..Len(s) |-> s[((k - 1 + r) % Len(s)) + 1]]
Reverse(s) == [k \in 1..Len(s) |-> s[Len(s) + 1 - k]]

\* The orders random.shuffle may leave s in: every permutation of a short
\* list; of a longer one, its rotations and the rotations of its reverse.
Shuffles(s) ==
    IF Len(s) <= MaxFullShuffle THEN AllOrders(s)
    ELSE {Rotate(s, r) : r \in 0..(Len(s) - 1)}
         \cup {Rotate(Reverse(s), r) : r \in 0..(Len(s) - 1)}

----------------------------------------------------------------------------
(* generateSetlist *)

\* available_songs = [s for s in songs if s not in [bouncy, this_world]]
Available(pool, b, t) == SelectSeq(pool, LAMBDA s : ~PyIn(s, <<b, t>>))

RECURSIVE PlaceSongs(_, _)
\* while len(setlist) < total_needed and remaining: ...
\* the value is <<setlist, remaining>> when the loop ends
PlaceSongs(sl, rem) ==
    IF Len(sl) < total_needed /\ rem # << >>
    THEN LET song == Head(rem)
         IN  IF Len(sl) = 0
             THEN PlaceSongs(<<song>>, Tail(rem))
             ELSE PlaceSongs(
                    PyInsert(sl, find_best_position_for_song(sl, song, 0, Len(sl)), song),
                    Tail(rem))
    ELSE <<sl, rem>>

RECURSIVE PlaceGuests(_, _, _)
\* while len(setlist) < total_needed and guest_idx < len(guest_performances): ...
\* the value is <<setlist, guest_idx>> when the loop ends
PlaceGuests(sl, g_idx, guests) ==
    IF Len(sl) < total_needed /\ g_idx < Len(guests)
    THEN LET ideal_pos == (Len(sl) * (g_idx + 1)) \div (Len(guests) + 1)
         IN  PlaceGuests(PyInsert(sl, ideal_pos, guests[g_idx + 1]), g_idx + 1, guests)
    ELSE <<sl, g_idx>>

\* mutant: score >= best_score, a later trial replaces an equal one
ImprovesOrEqual(s, best) == IF best.fin THEN s.v >= best.v ELSE TRUE

\* if score > best_score (line 149)
Improves(s, best) == FloatGT(s, best)

\* if not bouncy or not this_world: a dict with keys is true, None is not
MissingAnchor(b, t) == b = None \/ t = None

\* mutant: the anchors in the other order
ExtendSwapped(sl, b, t) == sl \o <<t, b>>

\* setlist.extend([bouncy, this_world])
Extend(sl, b, t) == sl \o <<b, t>>

\* mutant: the last slice ends at 20
SplitShort(best) ==
    << PySlice(best, 0, 5), PySlice(best, 5, 10),
       PySlice(best, 10, 15), PySlice(best, 15, 20) >>

\* the four slices of best_setlist
Split(best) ==
    << PySlice(best, 0, 5), PySlice(best, 5, 10),
       PySlice(best, 10, 15), PySlice(best, 15, 21) >>

\* no call of a single function is under way
Idle ==
    /\ call = None
    /\ ret = None

\* the locals of generateSetlist as the call starts
Locals ==
    /\ error = ""
    /\ bouncy = None
    /\ this_world = None
    /\ available_songs = << >>
    /\ iteration = 0
    /\ shuffled = << >>
    /\ remaining = << >>
    /\ guest_idx = 0
    /\ setlist = << >>
    /\ score = 0
    /\ best_setlist = None
    /\ best_score = NegInf
    /\ groups = None
    /\ history = << >>

Init ==
    /\ \E in \in Inputs :
         /\ songs = in[1]
         /\ guest_performances = in[2]
         /\ iterations = in[3]
    /\ pc = "start"
    /\ Locals
    /\ Idle

\* lines 98-113: find the ending songs, raise if one is missing, form the pool
FindAnchors ==
    /\ pc = "start"
    /\ bouncy' = FirstMatch(songs, Bouncy)
    /\ this_world' = FirstMatch(songs, ThisWorld)
    /\ IF MissingAnchor(bouncy', this_world')
       THEN /\ pc' = "raised"
            /\ error' = "ValueError"
            /\ available_songs' = available_songs
       ELSE /\ pc' = "loop"
            /\ error' = error
            /\ available_songs' = Available(songs, bouncy'[1], this_world'[1])
    /\ UNCHANGED <<songs, guest_performances, iterations, iteration, shuffled,
                   remaining, guest_idx, setlist, score, best_setlist, best_score,
                   groups, history, call, ret>>

\* lines 115-151: one iteration of the loop
Trial ==
    /\ pc = "loop"
    /\ iteration < iterations
    /\ \E sh \in Shuffles(available_songs) :
       \E placed \in {PlaceSongs(<< >>, sh)} :
       \E filled \in {PlaceGuests(placed[1], 0, guest_performances)} :
       \E built \in {Extend(filled[1], bouncy[1], this_world[1])} :
       \E sc \in {calculate_setlist_score(built)} :
         /\ shuffled' = sh
         /\ remaining' = placed[2]
         /\ guest_idx' = filled[2]
         /\ setlist' = built
         /\ score' = sc
         /\ IF Improves(Float(sc), best_score)
            THEN /\ best_score' = Float(sc)
                 /\ best_setlist' = Some(built)
            ELSE UNCHANGED <<best_score, best_setlist>>
         /\ history' = Append(history, <<built, sc>>)
    /\ iteration' = iteration + 1
    /\ UNCHANGED <<songs, guest_performances, iterations, pc, error, bouncy,
                   this_world, available_songs, groups, call, ret>>

\* lines 153-161: split the best setlist and return; None[0:5] raises TypeError
Return ==
    /\ pc = "loop"
    /\ iteration = iterations
    /\ IF best_setlist = None
       THEN /\ pc' = "raised"
            /\ error' = "TypeError"
            /\ groups' = groups
       ELSE /\ pc' = "returned"
            /\ error' = error
            /\ groups' = Some(Split(best_setlist[1]))
    /\ UNCHANGED <<songs, guest_performances, iterations, bouncy, this_world,
                   available_songs, iteration, shuffled, remaining, guest_idx,
                   setlist, score, best_setlist, best_score, history, call, ret>>

Next == FindAnchors \/ Trial \/ Return

Spec == Init /\ [][Next]_vars

----------------------------------------------------------------------------
(* calculate_setlist_score and find_best_position_for_song called on their  *)
(* own, on every list of songs up to a length.                              *)

PerformerSets == {{}, {"A"}, {"B"}, {"A", "B"}}

RECURSIVE RowsUpTo(_, _)
\* the lists of at most n rows over the performer sets ps
RowsUpTo(n, ps) ==
    IF n = 0 THEN {<< >>}
    ELSE LET shorter == RowsUpTo(n - 1, ps)
         IN  shorter \cup {Append(r, <<SongX, q>>) : r \in shorter, q \in ps}

\* no call of generateSetlist is under way
NoRun ==
    /\ songs = << >>
    /\ guest_performances = << >>
    /\ iterations = 0
    /\ Locals

ScoreInit ==
    /\ NoRun
    /\ pc = "call"
    /\ \E rows \in RowsUpTo(MaxScoreLen, PerformerSets) :
         call = [setlist |-> MkPool("s", rows)]
    /\ ret = None

ScoreCall ==
    /\ pc = "call"
    /\ ret' = Some(calculate_setlist_score(call.setlist))
    /\ pc' = "return"
    /\ UNCHANGED <<songs, guest_performances, iterations, error, bouncy, this_world,
                   available_songs, iteration, shuffled, remaining, guest_idx,
                   setlist, score, best_setlist, best_score, groups, history, call>>

ScoreSpec == ScoreInit /\ [][ScoreCall]_vars

FindInit ==
    /\ NoRun
    /\ pc = "call"
    /\ \E rows \in RowsUpTo(MaxFindLen, PerformerSets \ {{}}) :
       \E q \in PerformerSets \ {{}} :
       \E lo \in 0..Len(rows) :
       \E hi \in 0..Len(rows) :
         call = [partial_setlist |-> MkPool("s", rows),
                 song |-> [id |-> <<"s", 0>>, name |-> SongY, performers |-> q],
                 start_idx |-> lo,
                 end_idx |-> hi]
    /\ ret = None

FindCall ==
    /\ pc = "call"
    /\ ret' = Some(find_best_position_for_song(call.partial_setlist, call.song,
                                               call.start_idx, call.end_idx))
    /\ pc' = "return"
    /\ UNCHANGED <<songs, guest_performances, iterations, error, bouncy, this_world,
                   available_songs, iteration, shuffled, remaining, guest_idx,
                   setlist, score, best_setlist, best_score, groups, history, call>>

FindSpec == FindInit /\ [][FindCall]_vars

----------------------------------------------------------------------------
(* Properties *)

\* the pairs of positions i < j of sl at most 3 apart
NearPairs(sl) ==
    {pr \in (1..Len(sl)) \X (1..Len(sl)) : pr[1] < pr[2] /\ pr[2] - pr[1] <= 3}

Shared(sl, pr) == Cardinality(sl[pr[1]].performers \cap sl[pr[2]].performers)

RECURSIVE SumOver(_, _)
\* the sum of |shared performers| * (4 - distance) * 10 over the pairs prs
SumOver(sl, prs) ==
    IF prs = {} THEN 0
    ELSE LET pr == CHOOSE x \in prs : TRUE
         IN  Shared(sl, pr) * (4 - (pr[2] - pr[1])) * 10 + SumOver(sl, prs \ {pr})

\* the score as the specification defines it
SpecScore(sl) == 0 - SumOver(sl, NearPairs(sl))

\* the setlists built so far: every trial's, the last one's and the best one
Built ==
    {history[k][1] : k \in DOMAIN history}
    \cup (IF iteration > 0 THEN {setlist} ELSE {})
    \cup {best_setlist[k] : k \in DOMAIN best_setlist}

\* no name of the pool contains sub
NoName(sub) == \A k \in DOMAIN songs : ~Contains(songs[k].name, sub)

\* the first entry of the pool whose name contains sub
FirstNamed(sub) ==
    songs[CHOOSE k \in DOMAIN songs :
            /\ Contains(songs[k].name, sub)
            /\ \A m \in 1..(k - 1) : ~Contains(songs[m].name, sub)]

\* C1: every built setlist ends with the song matched by "Bouncy" and then
\* the song matched by "This World", whatever the shuffle, the pools and the
\* length reached.
AnchorsLast ==
    \A sl \in Built :
        /\ Len(sl) >= 2
        /\ sl[Len(sl) - 1] = FirstNamed(Bouncy)
        /\ sl[Len(sl)] = FirstNamed(ThisWorld)

\* C1 witness: a trial that used guests and still fell short of 21 songs
AnchorsLastWitness ==
    /\ iteration > 0
    /\ guest_idx > 0
    /\ Len(setlist) < total_needed + 2
    /\ setlist[Len(setlist)].name = ThisWorld

\* C2: when no name contains "Bouncy" or none contains "This World", the
\* call raises before any trial: nothing is shuffled, built or scored and
\* no groups are returned.
MissingAnchorRaisesFirst ==
    ((NoName(Bouncy) \/ NoName(ThisWorld)) /\ pc # "start")
    => /\ pc = "raised"
       /\ error = "ValueError"
       /\ iteration = 0
       /\ history = << >>
       /\ shuffled = << >>
       /\ setlist = << >>
       /\ best_setlist = None
       /\ groups = None

\* C2 witness: the call has raised on a pool with "This World" and no
\* "Bouncy", with guests and two iterations asked for
MissingAnchorWitness ==
    /\ pc = "raised"
    /\ NoName(Bouncy)
    /\ ~NoName(ThisWorld)
    /\ guest_performances # << >>
    /\ iterations = 2
    /\ iteration = 0

\* C3: when the best setlist does not have exactly 21 songs the call ends in
\* an error and returns no groups.
ShortSetlistNeverReturned ==
    pc = "returned" => Len(best_setlist[1]) = total_needed + 2

\* the regular songs other than the two anchor entries, by slot
OtherSlots ==
    SelectSeq(songs, LAMBDA s : s.id # bouncy[1].id /\ s.id # this_world[1].id)

Ids(sl) == {sl[k].id : k \in DOMAIN sl}

\* sl is total_needed songs that are no anchor, then the two anchors: the
\* regular songs among them number min(total_needed, navail), the guests are
\* the first ones of the guest pool, and no entry is there twice
Finalized(sl, navail) ==
    LET nreg == Min2(total_needed, navail)
        body == SubSeq(sl, 1, Len(sl) - 2)
    IN  /\ Len(sl) = total_needed + 2
        /\ sl[Len(sl) - 1] = bouncy[1]
        /\ sl[Len(sl)] = this_world[1]
        /\ \A k \in DOMAIN body : body[k].id \notin {bouncy[1].id, this_world[1].id}
        /\ Cardinality(Ids(body)) = total_needed
        /\ Cardinality(Ids(body) \cap Ids(songs)) = nreg
        /\ Ids(body) \cap Ids(guest_performances)
             = {guest_performances[k].id : k \in 1..(total_needed - nreg)}

\* C4: with two distinct anchor entries and at least 19 other regular songs
\* and guests together, every trial's setlist is finalized: 21 songs.
FinalizedShape ==
    (pc \in {"loop", "returned"}
       /\ bouncy[1].id # this_world[1].id
       /\ Len(OtherSlots) + Len(guest_performances) >= total_needed)
    => \A sl \in Built : Finalized(sl, Len(OtherSlots))

\* The same, counting the songs the code keeps available (holds).
FinalizedShapeOfKept ==
    (pc \in {"loop", "returned"}
       /\ bouncy[1].id # this_world[1].id
       /\ Len(available_songs) + Len(guest_performances) >= total_needed)
    => \A sl \in Built : Finalized(sl, Len(available_songs))

\* a state where FinalizedShapeOfKept has a case: guests filled a shortfall
FinalizedWitness ==
    /\ pc = "returned"
    /\ bouncy[1].id # this_world[1].id
    /\ Len(available_songs) = 3
    /\ guest_idx = total_needed - 3
    /\ guest_idx < Len(guest_performances)
    /\ Len(setlist) = total_needed + 2

MaxOf(S) == CHOOSE x \in S : \A y \in S : y <= x

\* C5: after every trial best_score is the greatest score of the trials so
\* far and best_setlist is the setlist of the earliest trial that reached it.
BestIsRunningMax ==
    (pc \in {"loop", "returned"} /\ history # << >>)
    => LET top == MaxOf({history[k][2] : k \in DOMAIN history})
           first == CHOOSE k \in DOMAIN history :
                       /\ history[k][2] = top
                       /\ \A m \in 1..(k - 1) : history[m][2] < top
       IN  /\ Len(history) = iteration
           /\ best_score = Float(top)
           /\ best_setlist = Some(history[first][1])

\* C5 witness: the second trial beat the first, and the third built another
\* setlist with the score of the second
BestIsRunningMaxWitness ==
    /\ Len(history) = 3
    /\ history[1][2] < history[2][2]
    /\ history[3][2] = history[2][2]
    /\ history[3][1] # history[2][1]
    /\ best_setlist = Some(history[2][1])

\* the score of the window around p after inserting the song at p
WindowScore(p) ==
    LET lst == call.partial_setlist
        ins == SubSeq(lst, 1, p) \o <<call.song>> \o SubSeq(lst, p + 1, Len(lst))
    IN  SpecScore(SubSeq(ins, Max2(0, p - 3) + 1, Min2(Len(lst) + 1, p + 4)))

\* C6: for start_idx <= end_idx <= length the position returned is the
\* smallest one in [start_idx, end_idx] whose window score is greatest, and
\* the list given is unchanged.
BestPositionIsEarliestMax ==
    (pc = "return" /\ "start_idx" \in DOMAIN call
       /\ call.start_idx <= call.end_idx)
    => /\ ret[1] \in call.start_idx..call.end_idx
       /\ \A q \in call.start_idx..call.end_idx : WindowScore(q) <= WindowScore(ret[1])
       /\ \A q \in call.start_idx..(ret[1] - 1) : WindowScore(q) < WindowScore(ret[1])

\* C6 witness: on a list of 4 songs scanned from 0, where the window of
\* position 0 is cut short, an earlier position is worse than the one
\* returned and a later one ties with it
BestPositionWitness ==
    /\ pc = "return"
    /\ "start_idx" \in DOMAIN call
    /\ Len(call.partial_setlist) = 4
    /\ call.start_idx = 0
    /\ call.start_idx <= call.end_idx
    /\ \E q \in call.start_idx..(ret[1] - 1) : WindowScore(q) < WindowScore(ret[1])
    /\ \E q \in (ret[1] + 1)..call.end_idx : WindowScore(q) = WindowScore(ret[1])

\* C7: the score is at most 0, it is 0 exactly when no two songs at most 3
\* apart share a performer, and it is the negated sum of the penalties.
ScoreIsNegatedPenaltySum ==
    (pc = "return" /\ "setlist" \in DOMAIN call)
    => LET sl == call.setlist
       IN  /\ ret[1] <= 0
           /\ (ret[1] = 0) <=> (\A pr \in NearPairs(sl) : Shared(sl, pr) = 0)
           /\ ret[1] = SpecScore(sl)

\* C7 witness: the only songs that share performers are 4 apart
ScoreWitness ==
    /\ pc = "return"
    /\ "setlist" \in DOMAIN call
    /\ Len(call.setlist) >= 5
    /\ Shared(call.setlist, <<1, 5>>) = 2
    /\ ret[1] = 0

\* concatenation of the groups
Concat(gs) == gs[1] \o gs[2] \o gs[3] \o gs[4]

\* C8: a best setlist of 21 songs is returned as groups of 5, 5, 5 and 6
\* songs whose concatenation is the setlist.
GroupsPartition ==
    (pc = "returned" /\ Len(best_setlist[1]) = 21)
    => LET gs == groups[1]
       IN  /\ Len(gs) = 4
           /\ <<Len(gs[1]), Len(gs[2]), Len(gs[3]), Len(gs[4])>> = <<5, 5, 5, 6>>
           /\ Concat(gs) = best_setlist[1]

\* C8 witness: 21 songs were returned
GroupsWitness ==
    /\ pc = "returned"
    /\ Len(best_setlist[1]) = 21
    /\ groups # None

\* the input of the scenario: "Bouncy" and "This World" performed by "A",
\* 19 more songs performed by "B", no guests, one iteration
UniformInput ==
    /\ guest_performances = << >>
    /\ iterations = 1
    /\ Len(songs) = 21
    /\ \E b, t \in DOMAIN songs :
         /\ b # t
         /\ songs[b].name = Bouncy /\ songs[b].performers = {"A"}
         /\ songs[t].name = ThisWorld /\ songs[t].performers = {"A"}
         /\ \A k \in DOMAIN songs \ {b, t} :
              /\ songs[k].performers = {"B"}
              /\ ~Contains(songs[k].name, Bouncy)
              /\ ~Contains(songs[k].name, ThisWorld)

\* C9 as stated: in the scenario the final score is -1040 for every shuffle.
UniformScoreWithoutAnchors ==
    (UniformInput /\ iteration = 1) => (score = -1040 /\ best_score = Float(-1040))

\* C9 amended: in the scenario the final score is -1070 for every shuffle:
\* the 1040 of the 19 songs and the 30 of the two adjacent anchors.
UniformScore ==
    (UniformInput /\ iteration = 1)
    => /\ Len(setlist) = 21
       /\ score = -1070
       /\ best_score = Float(-1070)

\* C9 witness: the scenario has run with a shuffle other than the pool order
UniformWitness ==
    /\ UniformInput
    /\ pc = "returned"
    /\ shuffled # available_songs

\* C10: the available pool is the regular pool without the two anchor
\* entries, in input order; each anchor is the first entry whose name
\* contains its substring; an entry with the content of an anchor stays.
AvailableIsPoolWithoutAnchorSlots ==
    pc \in {"loop", "returned"}
    => /\ bouncy = Some(FirstNamed(Bouncy))
       /\ this_world = Some(FirstNamed(ThisWorld))
       /\ available_songs = OtherSlots

====
